---- MODULE Spec2Model ----
(***************************************************************************)
(* Synchronized room playback: RoomPlaybackService (the shared playback    *)
(* record, its write operations, subscribe and the heartbeat) and the room *)
(* sync part of MusicPlayerProvider (the reconciler callback and the       *)
(* pending sync effect); and the room queue: RoomQueueService (add,       *)
(* remove and the sorted reads).                                           *)
(*                                                                         *)
(* The specifications share the definitions:                               *)
(*   SpecStore  the clients call the service concurrently; every call is   *)
(*              two steps at the store, its get and its set/update;        *)
(*              (SpecStoreGone: the room may be removed meanwhile);        *)
(*   SpecSync   one client calls the service, another one subscribes;      *)
(*   SpecRecon  one subscribed client is handed a set of updates of the    *)
(*              record in any order;                                       *)
(*   SpecListen the same, with repeated updates and a vanished record;     *)
(*   SpecDrift  the same for a client whose first sync is done;            *)
(*   SpecLeave  one client subscribes, plays and unsubscribes;             *)
(*   SpecRoom   two members in sync use the transport controls, writes may *)
(*              be rejected (SpecRoomOk: no write is rejected);            *)
(*   SpecApply  a synced member uses the controls while updates of the     *)
(*              other member arrive;                                       *)
(*   SpecSwitch a synced member moves from one room to another;            *)
(*   SpecQueue  the clients add to, remove from and read the room queue.   *)
(*                                                                         *)
(* Time is in milliseconds and advances in whole seconds, positions are in *)
(* whole seconds, so that the division by 1000 of subscribe is exact.      *)
(* A JavaScript null or undefined number is Absent, a null string is "".   *)
(* An opId is a number, fresh by a counter. The updater handed to          *)
(* setCurrentSong runs where it is called. All clients keep the initial    *)
(* volume, so the volume branch of the sync callback (and the              *)
(* re-subscription it causes) is outside the model.                        *)
(***************************************************************************)
EXTENDS Integers, Sequences, FiniteSets, TLC

\* ------------------------------------------------------------------ bounds
\* service calls (playSong, pause, resume, seek, heartbeat tick) per behaviour
MaxCalls == 3
\* calls of one client that may be awaiting the store at the same time
MaxInFlight == 1
\* snapshots queued for one subscriber
MaxInbox == 1
\* seconds the clock advances in one behaviour
MaxTicks == 1
\* highest version among the updates handed to the reconciler (SpecRecon)
MaxVersion == 4
\* updates handed to the reconciler (SpecRecon)
MaxUpdates == 2
\* deliveries to one listener, the repeated ones included
MaxDeliveries == 3
\* uses of the transport controls by the members of a room
MaxIntents == 2

\* ------------------------------------------------------- program constants
MsPerSec == 1000
DriftTolerance == 2
InitialVolume == 100

Absent == 0 - 1
NoOpId == 0
NoSong == ""
NoUser == ""

Clients == {"u1", "u2"}
Songs == {"s1", "s2"}
Positions == {10, 15}

\* Date.now() of a client lags the server clock by its skew.
ClockSkewMs(c) == IF c = "u2" THEN MsPerSec ELSE 0

Abs(x) == IF x < 0 THEN 0 - x ELSE x

\* ------------------------------------------------ the room playback record
NoRecord ==
  [exists |-> FALSE, songId |-> NoSong, songMeta |-> NoSong, isPlaying |-> FALSE,
   position |-> Absent, volume |-> Absent, initiator |-> NoUser, opId |-> NoOpId,
   version |-> Absent, updatedAt |-> Absent, startServerTs |-> Absent]

\* (mutant) the version read is written back as it is
GetNextVersionStuck(current) ==
  IF current.version # Absent THEN current.version ELSE 1

GetNextVersion(current) ==
  IF current.version # Absent THEN current.version + 1 ELSE 1

\* A call of the service: its arguments, and what it computed once its get
\* resolved (opId, version). phase is "get" (awaiting get) or "put" (awaiting
\* set/update).
NewCall(kind, by, songId, position, isPlaying) ==
  [kind |-> kind, by |-> by, phase |-> "get", songId |-> songId,
   position |-> position, isPlaying |-> isPlaying, volume |-> InitialVolume,
   opId |-> NoOpId, version |-> Absent, win |-> FALSE]

\* set(playbackRef, {...}) of playSong: the whole record is replaced.
PlaySongWrite(rec, call, ts) ==
  [exists |-> TRUE, songId |-> call.songId, songMeta |-> call.songId,
   isPlaying |-> TRUE, position |-> 0, volume |-> call.volume,
   initiator |-> call.by, opId |-> call.opId, version |-> call.version,
   updatedAt |-> ts, startServerTs |-> ts]

\* (mutant) pause writes with set: the record is replaced by its fields
PauseWriteReplaces(rec, call, ts) ==
  [NoRecord EXCEPT !.exists = TRUE, !.isPlaying = FALSE,
                   !.position = call.position, !.initiator = call.by,
                   !.opId = call.opId, !.version = call.version,
                   !.updatedAt = ts]

\* update(playbackRef, {...}) of pause, resume, seek: a merge.
PauseWrite(rec, call, ts) ==
  [rec EXCEPT !.exists = TRUE, !.isPlaying = FALSE, !.position = call.position,
              !.initiator = call.by, !.opId = call.opId, !.version = call.version,
              !.updatedAt = ts, !.startServerTs = Absent]

ResumeWrite(rec, call, ts) ==
  [rec EXCEPT !.exists = TRUE, !.isPlaying = TRUE, !.position = call.position,
              !.initiator = call.by, !.opId = call.opId, !.version = call.version,
              !.updatedAt = ts, !.startServerTs = ts]

SeekWrite(rec, call, ts) ==
  [rec EXCEPT !.exists = TRUE, !.position = call.position,
              !.isPlaying = call.isPlaying,
              !.initiator = call.by, !.opId = call.opId, !.version = call.version,
              !.updatedAt = ts,
              !.startServerTs = IF call.isPlaying THEN ts ELSE Absent]

\* (mutant) the heartbeat also publishes the local isPlaying flag
HeartbeatWritesIsPlaying(rec, call, ts) ==
  [rec EXCEPT !.exists = TRUE, !.position = call.position, !.updatedAt = ts,
              !.isPlaying = call.isPlaying,
              !.startServerTs = IF call.isPlaying THEN ts ELSE Absent]

\* update(refPath, {position, updatedAt, startServerTs}) of the heartbeat.
HeartbeatWrite(rec, call, ts) ==
  [rec EXCEPT !.exists = TRUE, !.position = call.position, !.updatedAt = ts,
              !.startServerTs = IF call.isPlaying THEN ts ELSE Absent]

StoreWrite(rec, call, ts) ==
  CASE call.kind = "playSong" -> PlaySongWrite(rec, call, ts)
    [] call.kind = "pause" -> PauseWrite(rec, call, ts)
    [] call.kind = "resume" -> ResumeWrite(rec, call, ts)
    [] call.kind = "seek" -> SeekWrite(rec, call, ts)
    [] OTHER -> HeartbeatWrite(rec, call, ts)

\* ------------------------------------------------------------- subscribe
NowServerMs(dateNow, serverTimeOffsetMs) == dateNow + serverTimeOffsetMs

\* (mutant) no update is recognised as the client's own
IsLocalNever(raw, lastUserOpId) == FALSE

IsLocal(raw, lastUserOpId) == raw.opId # NoOpId /\ raw.opId = lastUserOpId

SyncedPos(raw, nowServerMs) ==
  LET position == IF raw.position # Absent THEN raw.position ELSE 0
      startServerTs == raw.startServerTs
  IN  IF raw.isPlaying /\ startServerTs # Absent /\ startServerTs # 0
      THEN position + (nowServerMs - startServerTs) \div MsPerSec
      ELSE position

\* ------------------------------------------------------------------ state
VARIABLES
  store,      \* rooms/<roomId>/playback of the one room
  now,        \* the server clock, ms
  ticks,      \* seconds elapsed
  ops,        \* ops[c]: the calls of client c awaiting the store
  inbox,      \* inbox[c]: snapshots onValue will hand to c's listener, in order
  pool,       \* updates delivered in any order (reordering specification)
  service,    \* service[c]: the fields of c's RoomPlaybackService
  provider,   \* provider[c]: state and refs of c's MusicPlayerProvider
  opSeq,      \* opIds generated so far
  calls,      \* service calls made so far
  seekHist,   \* seekHist[c]: the seek calls of c's current throttle window
  seen,       \* seen[c]: the callbacks c's listener has processed
  trace,      \* the step just taken
  queue,      \* rooms/<roomId>/queue: the stored items
  qkeys,      \* the item ids push() has generated
  qops,       \* qops[c]: the queue calls of client c awaiting the store
  qtrace      \* the queue step just taken

vars == <<store, now, ticks, ops, inbox, pool, service, provider, opSeq, calls,
          seekHist, seen, trace, queue, qkeys, qops, qtrace>>

\* The room queue, which no playback step touches.
queueVars == <<queue, qkeys, qops, qtrace>>

NoItem == [itemId |-> "", song |-> NoSong, addedBy |-> NoUser, addedAt |-> Absent]

\* A queue step: what was called, by whom, with which item id, whether an
\* item was stored under that id when the write landed, and what a read
\* handed back (the list of subscribe, the item of getFirstItem, the id of
\* addSong).
QEv(act, c) ==
  [act |-> act, c |-> c, itemId |-> "", had |-> FALSE, items |-> <<>>,
   first |-> NoItem]

QQuiet == QEv("", NoUser)

InitQueue ==
  /\ queue = {}
  /\ qkeys = {}
  /\ qops = [c \in Clients |-> <<>>]
  /\ qtrace = QQuiet

NoPlayer == [video |-> NoSong, time |-> 0, lastSeek |-> Absent]

\* activeRoomId is null outside a room; the rooms of a member that moves.
NoRoom == ""
RoomA == "A"
RoomB == "B"

InitService ==
  [lastUserOpId |-> NoOpId, seekThrottle |-> FALSE, serverTimeOffsetMs |-> 0,
   subscribed |-> FALSE, heartbeat |-> FALSE]

InitProvider ==
  [currentSong |-> NoSong, isPlaying |-> FALSE, currentTime |-> 0,
   inRoom |-> FALSE, lastAppliedVersion |-> 0, isSyncing |-> FALSE,
   syncTimers |-> 0, hasInitialSynced |-> FALSE,
   pendingSyncPosition |-> Absent, playerRef |-> NoPlayer,
   playerReady |-> FALSE, mounting |-> FALSE,
   activeRoomId |-> NoRoom, listensTo |-> NoRoom]

InitSeekHist == [open |-> FALSE, intents |-> <<>>, started |-> 0, wrote |-> <<>>]

Ev(act, c) ==
  [act |-> act, c |-> c, kind |-> "", outcome |-> "", raw |-> NoRecord,
   syncedPos |-> Absent, isLocal |-> FALSE, ret |-> NoOpId, seek |-> FALSE]

DateNow(c) == now - ClockSkewMs(c)

HasPlayer(p) == p.playerRef.video # NoSong

\* setCurrentSong(song): the YouTube element is keyed by the song id, a new id
\* mounts a new player; playerRef keeps the old one until onReady.
LoadSong(p, song) ==
  IF p.currentSong = song THEN p
  ELSE [p EXCEPT !.currentSong = song, !.mounting = (song # NoSong)]

SeekPlayer(p, t) ==
  [p EXCEPT !.playerRef = [@ EXCEPT !.time = t, !.lastSeek = t]]

\* ------------------------------------------------- the reconciler callback
Version(raw) == IF raw.version # Absent THEN raw.version ELSE 0

\* (mutant) the version comparison is the wrong way round
IsStaleReversed(raw, lastAppliedVersion) ==
  IF raw.version # Absent THEN raw.version > lastAppliedVersion
  ELSE 0 > lastAppliedVersion

IsStale(raw, lastAppliedVersion) == Version(raw) < lastAppliedVersion

\* (mutant) a drift of exactly the tolerance is corrected too
ShouldForceSeekAtTolerance(p, nextTime) ==
  \/ ~p.hasInitialSynced
  \/ Abs(p.playerRef.time - nextTime) >= DriftTolerance

ShouldForceSeek(p, nextTime) ==
  \/ ~p.hasInitialSynced
  \/ Abs(p.playerRef.time - nextTime) > DriftTolerance

\* The remote apply: isSyncing, the song, isPlaying, currentTime, the seek.
ApplyRemote(p, raw, nextTime) ==
  LET sameSong == p.currentSong = raw.songId
      p1 == IF sameSong THEN p
            ELSE [LoadSong(p, raw.songId) EXCEPT !.pendingSyncPosition = nextTime]
      p2 == [p1 EXCEPT !.isSyncing = TRUE, !.syncTimers = @ + 1,
                       !.isPlaying = raw.isPlaying, !.currentTime = nextTime]
  IN  IF HasPlayer(p2)
      THEN IF ShouldForceSeek(p2, nextTime)
           THEN [SeekPlayer(p2, nextTime) EXCEPT !.hasInitialSynced = TRUE,
                                                 !.pendingSyncPosition = Absent]
           ELSE p2
      ELSE [p2 EXCEPT !.pendingSyncPosition = nextTime]

SyncOutcome(p, raw, isLocal) ==
  IF ~raw.exists THEN "null"
  ELSE IF IsStale(raw, p.lastAppliedVersion) THEN "stale"
  ELSE IF isLocal THEN "echo"
  ELSE "applied"

\* (mutant) the version of the client's own update is not recorded
OnPlaybackEchoUnrecorded(p, raw, syncedPos, isLocal) ==
  IF ~raw.exists THEN p
  ELSE IF IsStale(raw, p.lastAppliedVersion) THEN p
  ELSE IF isLocal THEN p
  ELSE ApplyRemote([p EXCEPT !.lastAppliedVersion = Version(raw)], raw, syncedPos)

OnPlayback(p, raw, syncedPos, isLocal) ==
  IF ~raw.exists THEN p
  ELSE IF IsStale(raw, p.lastAppliedVersion) THEN p
  ELSE LET q == [p EXCEPT !.lastAppliedVersion = Version(raw)]
       IN  IF isLocal THEN q ELSE ApplyRemote(q, raw, syncedPos)

\* The callback calls playerRef.current.seekTo.
Seeks(p, raw, syncedPos, isLocal) ==
  /\ SyncOutcome(p, raw, isLocal) = "applied"
  /\ HasPlayer(p)
  /\ ShouldForceSeek(p, syncedPos)

\* onValue's callback of subscribe together with the provider's callback.
Handle(c, raw) ==
  LET isLocal == IsLocal(raw, service[c].lastUserOpId)
      syncedPos == IF raw.exists
                   THEN SyncedPos(raw, NowServerMs(DateNow(c),
                                                   service[c].serverTimeOffsetMs))
                   ELSE Absent
  IN  /\ provider' = [provider EXCEPT
                        ![c] = OnPlayback(provider[c], raw, syncedPos, isLocal)]
      /\ trace' = [Ev("deliver", c) EXCEPT
                     !.outcome = SyncOutcome(provider[c], raw, isLocal),
                     !.raw = raw, !.syncedPos = syncedPos, !.isLocal = isLocal,
                     !.seek = Seeks(provider[c], raw, syncedPos, isLocal)]

\* ---------------------------------------------------------------- helpers
Last(seq) == seq[Len(seq)]

RemoveAt(seq, i) == SubSeq(seq, 1, i - 1) \o SubSeq(seq, i + 1, Len(seq))

Quiet == Ev("", NoUser)

CanCall(c) == calls < MaxCalls /\ Len(ops[c]) < MaxInFlight

Issue(c, call) ==
  /\ ops' = [ops EXCEPT ![c] = Append(@, call)]
  /\ calls' = calls + 1

\* What no call of the service touches before its first await.
atStore == <<store, now, ticks, inbox, pool, opSeq, seen>>

\* ------------------------------------- RoomPlaybackService, up to the await
SvcPlaySong(c, song) ==
  /\ CanCall(c)
  /\ Issue(c, NewCall("playSong", c, song, 0, TRUE))
  /\ trace' = Quiet
  /\ UNCHANGED <<service, seekHist>>

SvcPause(c, position) ==
  /\ CanCall(c)
  /\ Issue(c, NewCall("pause", c, NoSong, position, FALSE))
  /\ trace' = Quiet
  /\ UNCHANGED <<service, seekHist>>

SvcResume(c, position) ==
  /\ CanCall(c)
  /\ Issue(c, NewCall("resume", c, NoSong, position, TRUE))
  /\ trace' = Quiet
  /\ UNCHANGED <<service, seekHist>>

\* (mutant) the throttle flag is not looked at
SeekNeverThrottled(sv) == FALSE

\* if (this.seekThrottle) return
SeekThrottled(sv) == sv.seekThrottle

SvcSeek(c, position, isPlaying) ==
  LET h == seekHist[c]
      armed == service[c].seekThrottle
      proceeds == ~SeekThrottled(service[c])
      n == IF proceeds THEN 1 ELSE 0
      h2 == IF armed
            THEN [h EXCEPT !.intents = Append(@, position), !.started = @ + n]
            ELSE [open |-> TRUE, intents |-> <<position>>, started |-> n,
                  wrote |-> <<>>]
      \* the calls of an earlier window are no longer of the current one
      earlier == IF armed THEN ops[c]
                 ELSE [k \in 1..Len(ops[c]) |-> [ops[c][k] EXCEPT !.win = FALSE]]
  IN
  /\ calls < MaxCalls
  /\ proceeds => Len(ops[c]) < MaxInFlight
  /\ trace' = Quiet
  /\ seekHist' = [seekHist EXCEPT ![c] = h2]
  /\ calls' = calls + 1
  /\ IF proceeds
     THEN /\ service' = [service EXCEPT ![c].seekThrottle = TRUE]
          /\ ops' = [ops EXCEPT ![c] =
               Append(earlier, [NewCall("seek", c, NoSong, position, isPlaying)
                                  EXCEPT !.win = TRUE])]
     ELSE /\ ops' = [ops EXCEPT ![c] = earlier]
          /\ UNCHANGED service

\* The 250 ms timer of seek.
SeekThrottleTimer(c) ==
  /\ service[c].seekThrottle
  /\ service' = [service EXCEPT ![c].seekThrottle = FALSE]
  /\ seekHist' = [seekHist EXCEPT ![c].open = FALSE]
  /\ trace' = Quiet
  /\ UNCHANGED <<store, now, ticks, ops, inbox, pool, provider, opSeq, calls,
                 seen>>
  /\ UNCHANGED queueVars

\* subscribe: the listener is registered and first gets the current value of
\* the record (null when there is none).
SvcSubscribe(c) ==
  /\ service' = [service EXCEPT ![c].subscribed = TRUE]
  /\ inbox' = [inbox EXCEPT ![c] = <<store>>]

\* The listener on .info/serverTimeOffset fires.
ServerTimeOffset(c) ==
  /\ service[c].subscribed
  /\ service[c].serverTimeOffsetMs # ClockSkewMs(c)
  /\ service' = [service EXCEPT ![c].serverTimeOffsetMs = ClockSkewMs(c)]
  /\ trace' = Quiet
  /\ UNCHANGED <<store, now, ticks, ops, inbox, pool, provider, opSeq, calls,
                 seekHist, seen>>
  /\ UNCHANGED queueVars

\* ------------------------------------------------- the calls at the store
\* get resolves: pause, resume, seek return when there is no record, the
\* heartbeat also when the initiator is someone else; otherwise the opId is
\* generated, kept as lastUserOpId, and the write is sent.
ReturnsAfterGet(call, current) ==
  \/ call.kind \in {"pause", "resume", "seek"} /\ ~current.exists
  \/ call.kind = "heartbeat" /\ (~current.exists \/ current.initiator # call.by)

Prepared(call, current, opId) ==
  IF call.kind = "heartbeat" THEN [call EXCEPT !.phase = "put"]
  ELSE [call EXCEPT !.phase = "put", !.opId = opId,
                    !.version = GetNextVersion(current)]

GetResolve(c, i) ==
  LET call == ops[c][i] IN
  /\ call.phase = "get"
  /\ IF ReturnsAfterGet(call, store)
     THEN /\ ops' = [ops EXCEPT ![c] = RemoveAt(@, i)]
          /\ trace' = [Ev("get", c) EXCEPT !.outcome = "return",
                                           !.kind = call.kind]
          /\ UNCHANGED <<service, opSeq>>
     ELSE LET sent == Prepared(call, store, opSeq + 1) IN
          /\ ops' = [ops EXCEPT ![c][i] = sent]
          /\ IF call.kind = "heartbeat"
             THEN UNCHANGED <<service, opSeq>>
             ELSE /\ service' = [service EXCEPT ![c].lastUserOpId = sent.opId]
                  /\ opSeq' = opSeq + 1
          /\ trace' = [Ev("get", c) EXCEPT !.outcome = "sent",
                                           !.kind = call.kind]
  /\ UNCHANGED <<store, now, ticks, inbox, pool, provider, calls, seekHist, seen>>
  /\ UNCHANGED queueVars

\* set/update lands: the server stamps it, every listener gets the new value.
PutLand(c, i) ==
  LET call == ops[c][i]
      rec == StoreWrite(store, call, now)
  IN
  /\ call.phase = "put"
  /\ \A d \in Clients : service[d].subscribed => Len(inbox[d]) < MaxInbox
  /\ store' = rec
  /\ inbox' = [d \in Clients |->
                 IF service[d].subscribed THEN Append(inbox[d], rec) ELSE inbox[d]]
  /\ ops' = [ops EXCEPT ![c] = RemoveAt(@, i)]
  /\ seekHist' = IF call.kind = "seek" /\ call.win
                 THEN [seekHist EXCEPT ![c].wrote = Append(@, call.position)]
                 ELSE seekHist
  /\ trace' = [Ev("put", c) EXCEPT !.kind = call.kind,
                 !.ret = IF call.kind = "playSong" THEN call.opId ELSE NoOpId]
  /\ UNCHANGED <<now, ticks, pool, service, provider, opSeq, calls, seen>>
  /\ UNCHANGED queueVars

\* ------------------------------------------------------------- heartbeat
StartHeartbeat(c) ==
  /\ ~service[c].heartbeat
  /\ service' = [service EXCEPT ![c].heartbeat = TRUE]
  /\ trace' = Quiet
  /\ UNCHANGED <<store, now, ticks, ops, inbox, pool, provider, opSeq, calls,
                 seekHist, seen>>
  /\ UNCHANGED queueVars

\* One run of the interval callback up to its await, with the
\* {position, isPlaying} that getPlayerState() returned.
SvcHeartbeat(c, position, isPlaying) ==
  /\ service[c].heartbeat
  /\ CanCall(c)
  /\ Issue(c, NewCall("heartbeat", c, NoSong, position, isPlaying))
  /\ trace' = Quiet
  /\ UNCHANGED <<service, seekHist>>

\* ----------------------------------------------------------------- time
\* One second passes: a playing player advances, the progress poll copies
\* its position to currentTime.
Advance(p) ==
  IF HasPlayer(p) /\ ~p.mounting /\ p.isPlaying
  THEN [p EXCEPT !.playerRef.time = @ + 1, !.currentTime = p.playerRef.time + 1]
  ELSE p

Tick ==
  /\ ticks < MaxTicks
  /\ ticks' = ticks + 1
  /\ now' = now + MsPerSec
  /\ provider' = [c \in Clients |-> Advance(provider[c])]
  /\ trace' = Quiet
  /\ qtrace' = QQuiet
  /\ UNCHANGED <<store, ops, inbox, pool, service, opSeq, calls, seekHist, seen>>
  /\ UNCHANGED <<queue, qkeys, qops>>

\* ------------------------------------------------ the player and the timers
\* The pending sync effect; it runs when playerReady or inRoom changed.
PendingSync(p, wasReady) ==
  IF ~wasReady /\ p.playerReady /\ p.pendingSyncPosition # Absent /\ p.inRoom
  THEN [SeekPlayer(p, p.pendingSyncPosition) EXCEPT
          !.hasInitialSynced = TRUE, !.pendingSyncPosition = Absent]
  ELSE p

\* onReady of the player mounted for currentSong, then the effects it causes.
OnPlayerReady(p) ==
  PendingSync([p EXCEPT !.playerRef = [video |-> p.currentSong, time |-> 0,
                                       lastSeek |-> Absent],
                        !.playerReady = TRUE, !.mounting = FALSE],
              p.playerReady)

PlayerReady(c) ==
  /\ provider[c].mounting
  /\ provider' = [provider EXCEPT ![c] = OnPlayerReady(@)]
  /\ trace' = Quiet
  /\ UNCHANGED <<store, now, ticks, ops, inbox, pool, service, opSeq, calls,
                 seekHist, seen>>
  /\ UNCHANGED queueVars

\* The 400 ms timer of a remote apply.
SyncTimer(c) ==
  /\ provider[c].syncTimers > 0
  /\ provider' = [provider EXCEPT ![c] = [@ EXCEPT !.isSyncing = FALSE,
                                                   !.syncTimers = @ - 1]]
  /\ trace' = Quiet
  /\ UNCHANGED <<store, now, ticks, ops, inbox, pool, service, opSeq, calls,
                 seekHist, seen>>
  /\ UNCHANGED queueVars

\* pauseSong / resumeSong, the local part: ignored during a remote apply.
SetPlaying(p, playing) ==
  IF p.isSyncing THEN p ELSE [p EXCEPT !.isPlaying = playing]

\* ------------------------------------ the service on its own (SpecStore)
\* The clients call the service with any arguments; nobody listens.
StorePlaySong(c, song) ==
  SvcPlaySong(c, song) /\ UNCHANGED atStore /\ UNCHANGED provider
    /\ UNCHANGED queueVars

StorePause(c, position) ==
  SvcPause(c, position) /\ UNCHANGED atStore /\ UNCHANGED provider
    /\ UNCHANGED queueVars

StoreResume(c, position) ==
  SvcResume(c, position) /\ UNCHANGED atStore /\ UNCHANGED provider
    /\ UNCHANGED queueVars

StoreSeek(c, position, isPlaying) ==
  SvcSeek(c, position, isPlaying) /\ UNCHANGED atStore /\ UNCHANGED provider
    /\ UNCHANGED queueVars

StoreHeartbeat(c, position, isPlaying) ==
  SvcHeartbeat(c, position, isPlaying) /\ UNCHANGED atStore /\ UNCHANGED provider
    /\ UNCHANGED queueVars

Init ==
  /\ store = NoRecord
  /\ now = MsPerSec
  /\ ticks = 0
  /\ ops = [c \in Clients |-> <<>>]
  /\ inbox = [c \in Clients |-> <<>>]
  /\ pool = {}
  /\ service = [c \in Clients |-> InitService]
  /\ provider = [c \in Clients |-> InitProvider]
  /\ opSeq = 0
  /\ calls = 0
  /\ seekHist = [c \in Clients |-> InitSeekHist]
  /\ seen = [c \in Clients |-> <<>>]
  /\ trace = Quiet
  /\ InitQueue

NextStore ==
  \/ \E c \in Clients, song \in Songs : StorePlaySong(c, song)
  \/ \E c \in Clients, position \in Positions : StorePause(c, position)
  \/ \E c \in Clients, position \in Positions : StoreResume(c, position)
  \/ \E c \in Clients, position \in Positions, isPlaying \in BOOLEAN :
       StoreSeek(c, position, isPlaying)
  \/ \E c \in Clients : SeekThrottleTimer(c)
  \/ \E c \in Clients : StartHeartbeat(c)
  \/ \E c \in Clients, position \in Positions, isPlaying \in BOOLEAN :
       StoreHeartbeat(c, position, isPlaying)
  \/ \E c \in Clients : \E i \in 1..Len(ops[c]) : GetResolve(c, i)
  \/ \E c \in Clients : \E i \in 1..Len(ops[c]) : PutLand(c, i)
  \/ Tick

SpecStore == Init /\ [][NextStore]_vars

\* -------------------------- the service and a room torn down (SpecStoreGone)
\* remove(ref(rooms/<roomId>)): the room is closed or found empty, and its
\* playback record goes with it; every listener is handed null.
RoomRemoved ==
  /\ store.exists
  /\ \A d \in Clients : service[d].subscribed => Len(inbox[d]) < MaxInbox
  /\ store' = NoRecord
  /\ inbox' = [d \in Clients |->
                 IF service[d].subscribed THEN Append(inbox[d], NoRecord)
                 ELSE inbox[d]]
  /\ trace' = Ev("remove", NoUser)
  /\ UNCHANGED <<now, ticks, ops, pool, service, provider, opSeq, calls,
                 seekHist, seen>>
  /\ UNCHANGED queueVars

NextStoreGone ==
  \/ NextStore
  \/ RoomRemoved

SpecStoreGone == Init /\ [][NextStoreGone]_vars

\* ----------------------------- one writer and one listener (SpecSync)
\* u1 calls the service, u2 subscribes; what the service hands to u2's
\* callback is recorded in trace.
Writer == "u1"
Listener == "u2"

SyncSubscribe(c) ==
  /\ ~service[c].subscribed
  /\ SvcSubscribe(c)
  /\ trace' = Quiet
  /\ UNCHANGED <<store, now, ticks, ops, pool, provider, opSeq, calls, seekHist,
                 seen>>
  /\ UNCHANGED queueVars

SyncCallback(c) ==
  LET raw == Head(inbox[c]) IN
  /\ inbox[c] # <<>>
  /\ service[c].subscribed
  /\ inbox' = [inbox EXCEPT ![c] = Tail(@)]
  /\ trace' = [Ev("deliver", c) EXCEPT
       !.raw = raw,
       !.isLocal = raw.exists /\ IsLocal(raw, service[c].lastUserOpId),
       !.syncedPos = IF raw.exists
                     THEN SyncedPos(raw, NowServerMs(DateNow(c),
                                      service[c].serverTimeOffsetMs))
                     ELSE Absent]
  /\ UNCHANGED <<store, now, ticks, ops, pool, service, provider, opSeq, calls,
                 seekHist, seen>>
  /\ UNCHANGED queueVars

NextSync ==
  \/ SyncSubscribe(Listener)
  \/ ServerTimeOffset(Listener)
  \/ SyncCallback(Listener)
  \/ \E song \in Songs : StorePlaySong(Writer, song)
  \/ \E position \in Positions : StorePause(Writer, position)
  \/ \E position \in Positions : StoreResume(Writer, position)
  \/ \E position \in Positions, isPlaying \in BOOLEAN :
       StoreSeek(Writer, position, isPlaying)
  \/ SeekThrottleTimer(Writer)
  \/ StartHeartbeat(Writer)
  \/ \E position \in Positions, isPlaying \in BOOLEAN :
       StoreHeartbeat(Writer, position, isPlaying)
  \/ \E i \in 1..Len(ops[Writer]) : GetResolve(Writer, i)
  \/ \E i \in 1..Len(ops[Writer]) : PutLand(Writer, i)
  \/ Tick

SpecSync == Init /\ [][NextSync]_vars

\* ------------------------------------- the reconciler on its own (SpecRecon)
\* Client u1 has just subscribed to a room (lastAppliedVersion 0, no initial
\* sync yet). A set of updates of the room's record reaches its listener in
\* any order, each once.
Me == "u1"
MyOpId == 1
OtherOpId == 2
Versions == (MaxVersion - MaxUpdates + 1)..MaxVersion
RecordPositions == {30}
JoinDelays == {10}

\* The record as written at server time MsPerSec.
Update(version, songId, isPlaying, position, opId, by) ==
  [exists |-> TRUE, songId |-> songId, songMeta |-> songId,
   isPlaying |-> isPlaying, position |-> position, volume |-> InitialVolume,
   initiator |-> by, opId |-> opId, version |-> version, updatedAt |-> MsPerSec,
   startServerTs |-> IF isPlaying THEN MsPerSec ELSE Absent]

\* Updates written by the other member.
OtherUpdates ==
  {Update(v, s, pl, pos, OtherOpId, "u2") :
     v \in Versions, s \in Songs, pl \in BOOLEAN, pos \in RecordPositions}

\* The update written by u1's own pause or resume of song s.
OwnUpdates(s, playing) ==
  {Update(v, s, playing, pos, MyOpId, Me) : v \in Versions, pos \in RecordPositions}

Joined ==
  [InitProvider EXCEPT !.inRoom = TRUE, !.activeRoomId = RoomA,
                       !.listensTo = RoomA]

\* A client whose player is ready with song, at position time.
WithPlayer(p, song, time) ==
  [p EXCEPT !.currentSong = song, !.playerReady = TRUE, !.currentTime = time,
            !.playerRef = [video |-> song, time |-> time, lastSeek |-> Absent]]

InitRecon ==
  /\ store = NoRecord
  /\ ticks = 0
  /\ \E d \in JoinDelays : now = MsPerSec + d * MsPerSec
  /\ ops = [c \in Clients |-> <<>>]
  /\ inbox = [c \in Clients |-> <<>>]
  /\ calls = 0
  /\ seekHist = [c \in Clients |-> InitSeekHist]
  /\ seen = [c \in Clients |-> <<>>]
  /\ trace = Quiet
  /\ InitQueue
  /\ \/ \* u1 has issued nothing; it has no player, or one playing a song
        /\ opSeq = 1
        /\ service = [c \in Clients |->
             IF c = Me THEN [InitService EXCEPT !.subscribed = TRUE]
             ELSE InitService]
        /\ \E q \in {Joined} \cup {WithPlayer(Joined, s, 0) : s \in Songs} :
             provider = [c \in Clients |-> IF c = Me THEN q ELSE InitProvider]
        /\ pool \in {F \in SUBSET OtherUpdates :
                       Cardinality(F) \in 1..MaxUpdates}
     \/ \* u1 has paused or resumed its song; that update is among them
        /\ opSeq = 2
        /\ service = [c \in Clients |->
             IF c = Me THEN [InitService EXCEPT !.subscribed = TRUE,
                                                !.lastUserOpId = MyOpId]
             ELSE InitService]
        /\ \E s \in Songs, playing \in BOOLEAN :
             \E m \in OwnUpdates(s, playing) :
               \* the player is where the update says the playback is
               /\ provider = [c \in Clients |->
                    IF c = Me
                    THEN SetPlaying(
                           WithPlayer(Joined, s,
                                      SyncedPos(m, NowServerMs(DateNow(Me), 0))),
                           playing)
                    ELSE InitProvider]
               /\ pool \in {F \cup {m} : F \in {G \in SUBSET OtherUpdates :
                                            Cardinality(G) < MaxUpdates}}

\* One of the updates reaches u1's listener.
DeliverAny(c) ==
  \E u \in pool :
    /\ Handle(c, u)
    /\ pool' = pool \ {u}
    /\ seen' = [seen EXCEPT ![c] = Append(@, u)]
    /\ UNCHANGED <<store, now, ticks, ops, inbox, service, opSeq, calls,
                   seekHist>>
    /\ UNCHANGED queueVars

NextRecon ==
  \/ DeliverAny(Me)
  \/ PlayerReady(Me)
  \/ SyncTimer(Me)

SpecRecon == InitRecon /\ [][NextRecon]_vars

\* ------------------------------- the listener of a living room (SpecListen)
\* As above; the listener may also be handed the update it was handed last
\* once more, and the record may be gone when it is called.
Redeliver(c) ==
  /\ seen[c] # <<>>
  /\ Len(seen[c]) < MaxDeliveries
  /\ Handle(c, Last(seen[c]))
  /\ seen' = [seen EXCEPT ![c] = Append(@, Last(seen[c]))]
  /\ UNCHANGED <<store, now, ticks, ops, inbox, pool, service, opSeq, calls,
                 seekHist>>
  /\ UNCHANGED queueVars

\* rooms/<roomId> was removed: snapshot.val() is null.
DeliverNull(c) ==
  /\ service[c].subscribed
  /\ Handle(c, NoRecord)
  /\ UNCHANGED <<store, now, ticks, ops, inbox, pool, service, opSeq, calls,
                 seekHist, seen>>
  /\ UNCHANGED queueVars

NextListen ==
  \/ DeliverAny(Me)
  \/ Redeliver(Me)
  \/ DeliverNull(Me)
  \/ PlayerReady(Me)
  \/ SyncTimer(Me)

SpecListen == InitRecon /\ [][NextListen]_vars

\* ----------------------------------- a listener that has synced (SpecDrift)
\* u1 has synced in the room before: its player is ready on a song, at some
\* position near the one of the updates to come, and the first sync is done.
LocalTimes == 28..33

InitDrift ==
  /\ store = NoRecord
  /\ ticks = 0
  /\ now = MsPerSec
  /\ ops = [c \in Clients |-> <<>>]
  /\ inbox = [c \in Clients |-> <<>>]
  /\ calls = 0
  /\ seekHist = [c \in Clients |-> InitSeekHist]
  /\ seen = [c \in Clients |-> <<>>]
  /\ trace = Quiet
  /\ InitQueue
  /\ opSeq = 1
  /\ service = [c \in Clients |->
       IF c = Me THEN [InitService EXCEPT !.subscribed = TRUE] ELSE InitService]
  /\ \E s \in Songs, t \in LocalTimes, playing \in BOOLEAN :
       provider = [c \in Clients |->
         IF c = Me
         THEN [WithPlayer(Joined, s, t) EXCEPT
                 !.isPlaying = playing, !.hasInitialSynced = TRUE,
                 !.lastAppliedVersion = MaxVersion - MaxUpdates]
         ELSE InitProvider]
  /\ pool \in {F \in SUBSET OtherUpdates : Cardinality(F) \in 1..MaxUpdates}

SpecDrift == InitDrift /\ [][NextRecon]_vars

\* ------------------------------------------ a member that leaves (SpecLeave)
\* (mutant) the interval of the heartbeat is left running
UnsubscribedKeepsHeartbeat(sv) == [sv EXCEPT !.subscribed = FALSE]

\* The service after unsubscribe: stopHeartbeat, then the entry of the room in
\* subscriptions, when there is one, is called and deleted.
Unsubscribed(sv) == [sv EXCEPT !.heartbeat = FALSE, !.subscribed = FALSE]

\* unsubscribe(roomId); the detached listener is handed nothing more.
SvcUnsubscribe(c) ==
  /\ service' = [service EXCEPT ![c] = Unsubscribed(@)]
  /\ inbox' = [inbox EXCEPT ![c] = <<>>]
  /\ trace' = [Ev("unsubscribe", c) EXCEPT
       !.outcome = IF service[c].subscribed \/ service[c].heartbeat
                   THEN "released" ELSE "nothing"]
  /\ UNCHANGED <<store, now, ticks, ops, pool, provider, opSeq, calls, seekHist,
                 seen>>
  /\ UNCHANGED queueVars

\* u1 subscribes, starts its heartbeat, plays, and leaves, in any order and
\* any number of times.
NextLeave ==
  \/ SyncSubscribe(Me)
  \/ SyncCallback(Me)
  \/ StartHeartbeat(Me)
  \/ SvcUnsubscribe(Me)
  \/ \E song \in Songs : StorePlaySong(Me, song)
  \/ \E position \in Positions, isPlaying \in BOOLEAN :
       StoreHeartbeat(Me, position, isPlaying)
  \/ \E i \in 1..Len(ops[Me]) : GetResolve(Me, i)
  \/ \E i \in 1..Len(ops[Me]) : PutLand(Me, i)
  \/ Tick

SpecLeave == Init /\ [][NextLeave]_vars

\* --------------------------------------- two members in a room (SpecRoom)
\* u1 has played s1 in the room and u2 has joined and synced to it: the record
\* is u1's playSong, both listen, both players are ready and playing. The
\* members then use the transport controls; a write may be rejected.
FirstRecord == Update(MyOpId, "s1", TRUE, 0, MyOpId, Me)

InitRoom ==
  /\ store = FirstRecord
  /\ now = MsPerSec
  /\ ticks = 0
  /\ ops = [c \in Clients |-> <<>>]
  /\ inbox = [c \in Clients |-> <<>>]
  /\ pool = {}
  /\ service = [c \in Clients |->
       [InitService EXCEPT !.subscribed = TRUE,
                           !.lastUserOpId = IF c = Me THEN MyOpId ELSE NoOpId]]
  /\ provider = [c \in Clients |->
       [WithPlayer(Joined, "s1", 0) EXCEPT
          !.isPlaying = TRUE, !.lastAppliedVersion = Version(FirstRecord),
          !.hasInitialSynced = (c # Me)]]
  /\ opSeq = MyOpId
  /\ calls = 0
  /\ seekHist = [c \in Clients |-> InitSeekHist]
  /\ seen = [c \in Clients |-> <<>>]
  /\ trace = Quiet
  /\ InitQueue

\* playerRef.current?.getCurrentTime?.() ?? currentTime
LocalPosition(p) == IF HasPlayer(p) THEN p.playerRef.time ELSE p.currentTime

atRoom == <<store, now, ticks, inbox, pool, opSeq, seen>>

CanUse(c) == provider[c].inRoom /\ calls < MaxIntents

playSongInRoom(c, song) ==
  /\ CanUse(c)
  /\ provider' = [provider EXCEPT ![c] =
       [LoadSong(@, song) EXCEPT !.isPlaying = TRUE, !.currentTime = 0]]
  /\ SvcPlaySong(c, song)
  /\ UNCHANGED atRoom /\ UNCHANGED queueVars

pauseSong(c) ==
  /\ ~provider[c].isSyncing
  /\ CanUse(c)
  /\ provider' = [provider EXCEPT ![c].isPlaying = FALSE]
  /\ SvcPause(c, LocalPosition(provider[c]))
  /\ UNCHANGED atRoom /\ UNCHANGED queueVars

resumeSong(c) ==
  /\ ~provider[c].isSyncing
  /\ CanUse(c)
  /\ provider' = [provider EXCEPT ![c].isPlaying = TRUE]
  /\ SvcResume(c, LocalPosition(provider[c]))
  /\ UNCHANGED atRoom /\ UNCHANGED queueVars

seekTo(c, time) ==
  /\ ~provider[c].isSyncing
  /\ CanUse(c)
  /\ provider' = [provider EXCEPT ![c] =
       IF HasPlayer(@) THEN [SeekPlayer(@, time) EXCEPT !.currentTime = time]
       ELSE @]
  /\ SvcSeek(c, time, provider[c].isPlaying)
  /\ UNCHANGED atRoom /\ UNCHANGED queueVars

\* (mutant) the handler puts isPlaying back to what the record says
CaughtRollsBack(p, rec) ==
  IF rec.exists THEN [p EXCEPT !.isPlaying = rec.isPlaying] ELSE p

\* .catch(console.error) / .catch(... toast.error(...)): the provider's state
\* is not touched.
Caught(p, rec) == p

\* The get or the write of a call is rejected; the promise of the service
\* call rejects and the issuer's catch handler runs.
WriteFails(c, i) ==
  LET call == ops[c][i] IN
  /\ call.kind # "heartbeat"
  /\ ops' = [ops EXCEPT ![c] = RemoveAt(@, i)]
  /\ provider' = [provider EXCEPT ![c] = Caught(@, store)]
  /\ trace' = [Ev("fail", c) EXCEPT !.kind = call.kind]
  /\ UNCHANGED <<store, now, ticks, inbox, pool, service, opSeq, calls,
                 seekHist, seen>>
  /\ UNCHANGED queueVars

\* The listener of c is called with the next value of the record.
Deliver(c) ==
  /\ inbox[c] # <<>>
  /\ service[c].subscribed
  /\ Handle(c, Head(inbox[c]))
  /\ inbox' = [inbox EXCEPT ![c] = Tail(@)]
  /\ UNCHANGED <<store, now, ticks, ops, pool, service, opSeq, calls,
                 seekHist, seen>>
  /\ UNCHANGED queueVars

\* The room while the store accepts every write.
NextRoomOk ==
  \/ \E c \in Clients, song \in Songs : playSongInRoom(c, song)
  \/ \E c \in Clients : pauseSong(c)
  \/ \E c \in Clients : resumeSong(c)
  \/ \E c \in Clients, time \in Positions : seekTo(c, time)
  \/ \E c \in Clients : SeekThrottleTimer(c)
  \/ \E c \in Clients : \E i \in 1..Len(ops[c]) : GetResolve(c, i)
  \/ \E c \in Clients : \E i \in 1..Len(ops[c]) : PutLand(c, i)
  \/ \E c \in Clients : Deliver(c)
  \/ \E c \in Clients : PlayerReady(c)
  \/ \E c \in Clients : SyncTimer(c)

SpecRoomOk == InitRoom /\ [][NextRoomOk]_vars

NextRoom ==
  \/ NextRoomOk
  \/ \E c \in Clients : \E i \in 1..Len(ops[c]) : WriteFails(c, i)

SpecRoom == InitRoom /\ [][NextRoom]_vars

\* -------------------------- a member at the controls while synced (SpecApply)
\* u1 has synced in the room on the song of FirstRecord; some of the other
\* member's pauses, resumes and seeks of that song are still on their way to
\* u1's listener, the newest of them being the record.
\* u1 uses pause, resume and seek of the provider meanwhile. The song stays
\* the same, so the player is never mounted anew.
InitApply ==
  /\ pool \in {F \in SUBSET {u \in OtherUpdates : u.songId = FirstRecord.songId} :
               Cardinality(F) \in 1..MaxUpdates}
  /\ store \in {u \in pool : \A w \in pool : u.version >= w.version}
  /\ ticks = 0
  /\ now = MsPerSec
  /\ ops = [c \in Clients |-> <<>>]
  /\ inbox = [c \in Clients |-> <<>>]
  /\ calls = 0
  /\ seekHist = [c \in Clients |-> InitSeekHist]
  /\ seen = [c \in Clients |-> <<>>]
  /\ trace = Quiet
  /\ InitQueue
  /\ opSeq = OtherOpId
  /\ service = [c \in Clients |->
       IF c = Me THEN [InitService EXCEPT !.subscribed = TRUE] ELSE InitService]
  /\ \E playing \in BOOLEAN :
       provider = [c \in Clients |->
         IF c = Me
         THEN [WithPlayer(Joined, FirstRecord.songId, 30) EXCEPT
                 !.isPlaying = playing, !.hasInitialSynced = TRUE,
                 !.lastAppliedVersion = MaxVersion - MaxUpdates]
         ELSE InitProvider]

NextApply ==
  \/ DeliverAny(Me)
  \/ Deliver(Me)
  \/ SyncTimer(Me)
  \/ pauseSong(Me)
  \/ resumeSong(Me)
  \/ \E time \in Positions : seekTo(Me, time)
  \/ SeekThrottleTimer(Me)
  \/ \E i \in 1..Len(ops[Me]) : GetResolve(Me, i)
  \/ \E i \in 1..Len(ops[Me]) : PutLand(Me, i)

SpecApply == InitApply /\ [][NextApply]_vars

\* ------------------------------ a member that changes room (SpecSwitch)
\* u1 has synced in room A and goes to room B without leaving A first (it
\* accepts an invite or joins by code). Updates of A's record are still
\* reaching the listener the sync effect attached; store is the record of B,
\* written by B's member.
RoomBRecords ==
  {Update(v, s, pl, pos, OtherOpId, "u2") :
     v \in 1..MaxVersion, s \in Songs, pl \in BOOLEAN, pos \in RecordPositions}

InitSwitch ==
  /\ store \in RoomBRecords
  /\ ticks = 0
  /\ now = MsPerSec
  /\ ops = [c \in Clients |-> <<>>]
  /\ inbox = [c \in Clients |-> <<>>]
  /\ calls = 0
  /\ seekHist = [c \in Clients |-> InitSeekHist]
  /\ seen = [c \in Clients |-> <<>>]
  /\ trace = Quiet
  /\ InitQueue
  /\ opSeq = OtherOpId
  /\ service = [c \in Clients |->
       IF c = Me THEN [InitService EXCEPT !.subscribed = TRUE] ELSE InitService]
  /\ \E playing \in BOOLEAN :
       provider = [c \in Clients |->
         IF c = Me
         THEN [WithPlayer(Joined, FirstRecord.songId, 30) EXCEPT
                 !.isPlaying = playing, !.hasInitialSynced = TRUE,
                 !.lastAppliedVersion = MaxVersion - MaxUpdates]
         ELSE InitProvider]
  /\ pool \in {F \in SUBSET OtherUpdates : Cardinality(F) \in 1..MaxUpdates}

\* setActiveRoom(roomId, userId), called by the effect of the Rooms page when
\* currentRoom.id has changed: the state setters and the reset of the ref.
setActiveRoom(c, roomId) ==
  /\ provider[c].activeRoomId # roomId
  /\ provider' = [provider EXCEPT ![c] =
       [@ EXCEPT !.activeRoomId = roomId, !.inRoom = (roomId # NoRoom),
                 !.lastAppliedVersion = 0]]
  /\ trace' = Ev("setActiveRoom", c)
  /\ UNCHANGED <<store, now, ticks, ops, inbox, pool, service, opSeq, calls,
                 seekHist, seen>>
  /\ UNCHANGED queueVars

\* The room sync effect after the render with the new activeRoomId: the
\* cleanup of the run before (its listener is detached), then the new run,
\* whose subscribe is handed the record of the room.
RoomSyncEffect(c) ==
  /\ provider[c].listensTo # provider[c].activeRoomId
  /\ provider[c].inRoom
  /\ provider' = [provider EXCEPT ![c] =
       [@ EXCEPT !.hasInitialSynced = FALSE, !.pendingSyncPosition = Absent,
                 !.listensTo = provider[c].activeRoomId]]
  /\ SvcSubscribe(c)
  /\ trace' = Ev("effect", c)
  /\ UNCHANGED <<store, now, ticks, ops, pool, opSeq, calls, seekHist, seen>>
  /\ UNCHANGED queueVars

NextSwitch ==
  \/ setActiveRoom(Me, RoomB)
  \/ RoomSyncEffect(Me)
  \/ provider[Me].listensTo = RoomA /\ DeliverAny(Me)
  \/ provider[Me].listensTo = RoomB /\ Deliver(Me)
  \/ PlayerReady(Me)
  \/ SyncTimer(Me)

SpecSwitch == InitSwitch /\ [][NextSwitch]_vars

\* ------------------------------------------------- the room queue (SpecQueue)
\* Item ids as push() makes them; two of them differ in a letter that the
\* collations of the clients' locales order differently.
ItemIds == {"-Ns", "-Nt", "-Nz"}

\* The default locale of the client's runtime, which localeCompare uses when
\* it is given none.
LocaleOf(c) == IF c = "u2" THEN "et" ELSE "en"

\* Position of an item id in the collation of a locale: z comes before t in
\* the Estonian alphabet, after it in the English one.
CollationRank(locale, id) ==
  IF locale = "et"
  THEN CASE id = "-Ns" -> 1 [] id = "-Nz" -> 2 [] OTHER -> 3
  ELSE CASE id = "-Ns" -> 1 [] id = "-Nt" -> 2 [] OTHER -> 3

\* a.localeCompare(b)
LocaleCompare(locale, a, b) == CollationRank(locale, a) - CollationRank(locale, b)

\* (mutant) items added at the same time are left as they were enumerated
CompareAddedAtOnly(locale, a, b) ==
  LET ta == IF a.addedAt # Absent THEN a.addedAt ELSE 0
      tb == IF b.addedAt # Absent THEN b.addedAt ELSE 0
  IN  ta - tb

\* The comparator handed to sort: negative when a goes first.
CompareItems(locale, a, b) ==
  LET ta == IF a.addedAt # Absent THEN a.addedAt ELSE 0
      tb == IF b.addedAt # Absent THEN b.addedAt ELSE 0
  IN  IF ta # tb THEN ta - tb ELSE LocaleCompare(locale, a.itemId, b.itemId)

\* One item put in its place in a sorted list, after the items it does not
\* go before (sort is stable).
RECURSIVE InsertItem(_, _, _)
InsertItem(locale, x, sorted) ==
  IF sorted = <<>> THEN <<x>>
  ELSE IF CompareItems(locale, x, Head(sorted)) < 0 THEN <<x>> \o sorted
  ELSE <<Head(sorted)>> \o InsertItem(locale, x, Tail(sorted))

\* items.sort(comparator) on the entries as they were enumerated.
RECURSIVE SortItems(_, _)
SortItems(locale, entries) ==
  IF entries = <<>> THEN <<>>
  ELSE InsertItem(locale, Last(entries),
                  SortItems(locale, SubSeq(entries, 1, Len(entries) - 1)))

\* The orders in which Object.entries may enumerate the stored items.
Enumerations(items) ==
  {e \in [1..Cardinality(items) -> items] :
     \A i, j \in 1..Cardinality(items) : i # j => e[i] # e[j]}

\* items[0] ?? null of getFirstItem
FirstOf(sorted) == IF sorted = <<>> THEN NoItem ELSE Head(sorted)

NewQCall(kind, by, itemId, song) ==
  [kind |-> kind, by |-> by, itemId |-> itemId, song |-> song]

\* addSong up to its await: push() makes the key, set is sent.
QueueAddSong(c, song) ==
  \E id \in ItemIds \ qkeys :
    /\ Len(qops[c]) < MaxInFlight
    /\ qkeys' = qkeys \cup {id}
    /\ qops' = [qops EXCEPT ![c] = Append(@, NewQCall("add", c, id, song))]
    /\ qtrace' = QQuiet
    /\ UNCHANGED queue

\* (mutant) set on the list instead of on the item
AddOverwrites(items, call, ts) ==
  {[itemId |-> call.itemId, song |-> call.song, addedBy |-> call.by,
    addedAt |-> ts]}

\* set(itemRef, {song, addedBy, addedAt: serverTimestamp()})
AddWrite(items, call, ts) ==
  {x \in items : x.itemId # call.itemId}
    \cup {[itemId |-> call.itemId, song |-> call.song, addedBy |-> call.by,
            addedAt |-> ts]}

\* removeItem up to its await.
QueueRemoveItem(c, id) ==
  /\ Len(qops[c]) < MaxInFlight
  /\ qops' = [qops EXCEPT ![c] = Append(@, NewQCall("remove", c, id, NoSong))]
  /\ qtrace' = QQuiet
  /\ UNCHANGED <<queue, qkeys>>

\* (mutant) the oldest item is removed, whatever the id
RemoveOldest(items, call) ==
  {x \in items : \E y \in items : y.addedAt < x.addedAt}

\* remove(ref(rooms/<roomId>/queue/<itemId>))
RemoveWrite(items, call) == {x \in items : x.itemId # call.itemId}

\* The set or remove of a queue call lands; addSong returns the key.
QueueLand(c, i) ==
  LET call == qops[c][i] IN
  /\ queue' = IF call.kind = "add" THEN AddWrite(queue, call, now)
               ELSE RemoveWrite(queue, call)
  /\ qops' = [qops EXCEPT ![c] = RemoveAt(@, i)]
  /\ qtrace' = [QEv(call.kind, c) EXCEPT
                  !.itemId = call.itemId,
                  !.had = \E x \in queue : x.itemId = call.itemId]
  /\ UNCHANGED qkeys

\* The callback of subscribe is handed the stored items.
QueueCallback(c) ==
  \E entries \in Enumerations(queue) :
    /\ qtrace' = [QEv("list", c) EXCEPT !.items = SortItems(LocaleOf(c), entries)]
    /\ UNCHANGED <<queue, qkeys, qops>>

\* getFirstItem, at the time its get resolves.
QueueGetFirstItem(c) ==
  \E entries \in Enumerations(queue) :
    /\ qtrace' = [QEv("first", c) EXCEPT
                    !.first = FirstOf(SortItems(LocaleOf(c), entries))]
    /\ UNCHANGED <<queue, qkeys, qops>>

playbackVars == <<store, ops, inbox, pool, service, provider, opSeq, calls,
                  seekHist, seen, trace>>

NextQueue ==
  \/ \E c \in Clients, song \in Songs :
       QueueAddSong(c, song) /\ UNCHANGED <<playbackVars, now, ticks>>
  \/ \E c \in Clients, id \in ItemIds :
       QueueRemoveItem(c, id) /\ UNCHANGED <<playbackVars, now, ticks>>
  \/ \E c \in Clients : \E i \in 1..Len(qops[c]) :
       QueueLand(c, i) /\ UNCHANGED <<playbackVars, now, ticks>>
  \/ \E c \in Clients :
       QueueCallback(c) /\ UNCHANGED <<playbackVars, now, ticks>>
  \/ \E c \in Clients :
       QueueGetFirstItem(c) /\ UNCHANGED <<playbackVars, now, ticks>>
  \/ Tick

SpecQueue == Init /\ [][NextQueue]_vars

\* =============================================================== claims
MaxSeenVersion(s) ==
  CHOOSE v \in {s[i].version : i \in 1..Len(s)} :
    \A i \in 1..Len(s) : s[i].version <= v

ServerNow(c) == NowServerMs(DateNow(c), service[c].serverTimeOffsetMs)

\* C1: once every update of the set has been processed, in whatever order,
\* the client's song, isPlaying and position are those of an update of
\* maximum version.
C1_FinalStateIsMaxVersion ==
  LET s == seen[Me]
      p == provider[Me]
  IN  (pool = {} /\ s # <<>>) =>
        \E i \in 1..Len(s) :
          /\ s[i].version = MaxSeenVersion(s)
          /\ p.currentSong = s[i].songId
          /\ p.isPlaying = s[i].isPlaying
          /\ p.currentTime = SyncedPos(s[i], ServerNow(Me))

\* C2: an update whose version is below lastAppliedVersion leaves the whole
\* client state as it was (lastAppliedVersion, song, isPlaying, current time,
\* player); after the deliveries version 4 then version 3 the client has
\* lastAppliedVersion 4.
C2_StaleUpdateDiscarded ==
  [][/\ (/\ trace'.act = "deliver"
         /\ trace'.raw.exists
         /\ trace'.raw.version < provider[trace'.c].lastAppliedVersion)
        => provider' = provider
     /\ \A c \in Clients :
          (/\ Len(seen'[c]) = 2
           /\ seen'[c][1].version = 4
           /\ seen'[c][2].version = 3)
          => provider'[c].lastAppliedVersion = 4]_vars

C2_Witness ==
  /\ trace.act = "deliver"
  /\ trace.outcome = "stale"
  /\ Len(seen[Me]) = 2
  /\ seen[Me][1].version = 4
  /\ seen[Me][2].version = 3
  /\ seen[Me][1].opId = OtherOpId
  /\ provider[Me].lastAppliedVersion = 4
  /\ provider[Me].currentSong = seen[Me][1].songId

\* C3: an update whose opId is the client's lastUserOpId changes nothing of
\* the client but lastAppliedVersion: no seek, no isPlaying change, no reload.
C3_EchoNeverApplied ==
  [][(/\ trace'.act = "deliver"
      /\ trace'.raw.exists
      /\ trace'.raw.opId # NoOpId
      /\ trace'.raw.opId = service[trace'.c].lastUserOpId)
     => provider'[trace'.c] =
          [provider[trace'.c] EXCEPT
             !.lastAppliedVersion = provider'[trace'.c].lastAppliedVersion]]_vars

C3_Witness ==
  /\ trace.act = "deliver"
  /\ trace.raw.opId = service[Me].lastUserOpId
  /\ trace.raw.opId = MyOpId
  /\ trace.raw.isPlaying # provider[Me].isPlaying
  /\ provider[Me].lastAppliedVersion = trace.raw.version

\* A null number in JavaScript arithmetic is 0.
Num(x) == IF x = Absent THEN 0 ELSE x

\* C4: the syncedPos handed to the callback with a non-null snapshot is
\* position + (serverNow - startServerTs) in seconds when the record has
\* isPlaying, and position when it has not.
C4_SyncedPosFollowsIsPlaying ==
  (trace.act = "deliver" /\ trace.raw.exists) =>
    trace.syncedPos =
      IF trace.raw.isPlaying
      THEN trace.raw.position
             + (ServerNow(trace.c) - Num(trace.raw.startServerTs)) \div MsPerSec
      ELSE trace.raw.position

\* C5: a client that has issued nothing and applied nothing applies the first
\* snapshot of a playing record, and the player of the record's track, once
\* it is the ready one, has been seeked to position + (serverNow - T0).
C5_JoinerHardSeeks ==
  LET s == seen[Me]
      p == provider[Me]
  IN  (/\ service[Me].lastUserOpId = NoOpId
       /\ Len(s) = 1
       /\ s[1].isPlaying
       /\ p.playerRef.video = s[1].songId
       /\ ~p.mounting)
      => /\ p.currentSong = s[1].songId
         /\ p.lastAppliedVersion = s[1].version
         /\ p.playerRef.lastSeek = SyncedPos(s[1], ServerNow(Me))

\* C6: once a throttle window is over, the seek write of that window carries
\* the position of the last seek call made in it.
C6_WriteCarriesLastIntent ==
  \A c \in Clients :
    LET h == seekHist[c]
    IN  (~h.open /\ h.wrote # <<>>) => Last(h.wrote) = Last(h.intents)

InWindow(c) ==
  {k \in 1..Len(ops[c]) : ops[c][k].kind = "seek" /\ ops[c][k].win}

\* C7: of the seek calls made in one throttle window at most one gets past
\* the throttle, so at most one read or write of the window is at the store;
\* a call that does not get past it leaves the calls in flight as they were.
C7_OneSeekPerWindow ==
  \A c \in Clients :
    LET h == seekHist[c]
    IN  /\ h.started <= 1
        /\ Cardinality(InWindow(c)) + Len(h.wrote) <= h.started

C7_Witness ==
  \E c \in Clients :
    /\ seekHist[c].open
    /\ Len(seekHist[c].intents) >= 2
    /\ seekHist[c].wrote # <<>>
    /\ ops[c] = <<>>

\* C8: the version of the stored record never decreases from one stored state
\* to the next.
C8_VersionNeverDecreases ==
  [][(store.exists /\ store'.exists) => store'.version >= store.version]_vars

UsedOpIds ==
  {store.opId}
    \cup {service[c].lastUserOpId : c \in Clients}
    \cup UNION {{ops[c][k].opId : k \in 1..Len(ops[c])} : c \in Clients}

Transport == {"playSong", "pause", "resume", "seek"}

\* C9: when the get of playSong, pause, resume or seek resolves and a write
\* is sent, the write has version = read version + 1 (1 without one), a
\* fresh opId that is now the issuer's lastUserOpId; the write that lands
\* stores that version and opId with the issuer as initiator, and playSong
\* returns the opId.
C9_WriteIsNextVersionFreshOpId ==
  [][/\ (trace'.act = "get" /\ trace'.outcome = "sent"
           /\ trace'.kind \in Transport)
        => \E i \in 1..Len(ops[trace'.c]) :
             LET sent == ops'[trace'.c][i] IN
             /\ ops[trace'.c][i].phase = "get"
             /\ sent.phase = "put"
             /\ sent.version = IF store.version # Absent
                               THEN store.version + 1 ELSE 1
             /\ sent.opId # NoOpId
             /\ sent.opId \notin UsedOpIds
             /\ service'[trace'.c].lastUserOpId = sent.opId
     /\ (trace'.act = "put" /\ trace'.kind \in Transport)
        => \E i \in 1..Len(ops[trace'.c]) :
             LET call == ops[trace'.c][i] IN
             /\ call.phase = "put"
             /\ Len(ops'[trace'.c]) = Len(ops[trace'.c]) - 1
             /\ store'.version = call.version
             /\ store'.opId = call.opId
             /\ store'.initiator = trace'.c
             /\ (trace'.kind = "playSong") => (trace'.ret = call.opId)]_vars

C9_Witness ==
  /\ trace.act = "put"
  /\ trace.kind = "resume"
  /\ store.version = 3
  /\ store.opId = 3
  /\ store.initiator = trace.c
  /\ service[trace.c].lastUserOpId = 3

\* C10: a heartbeat write leaves every field of the record but position,
\* updatedAt and startServerTs as it was; position is the player's, updatedAt
\* the server time, startServerTs the server time when the player is playing
\* and null when it is not.
C10_HeartbeatFrame ==
  [][(trace'.act = "put" /\ trace'.kind = "heartbeat")
     => /\ store' = [store EXCEPT !.position = store'.position,
                                  !.updatedAt = store'.updatedAt,
                                  !.startServerTs = store'.startServerTs]
        /\ store'.updatedAt = now
        /\ \E i \in 1..Len(ops[trace'.c]) :
             LET call == ops[trace'.c][i] IN
             /\ call.kind = "heartbeat"
             /\ call.phase = "put"
             /\ store'.position = call.position
             /\ store'.startServerTs = IF call.isPlaying THEN now ELSE Absent]_vars

C10_Witness ==
  /\ trace.act = "put"
  /\ trace.kind = "heartbeat"
  /\ ticks > 0
  /\ store.updatedAt = now
  /\ store.startServerTs = now
  /\ store.version = 1
  /\ store.position \in Positions

\* C11: the record a heartbeat write lands on has the heartbeat's client as
\* its initiator, whatever other clients did between the heartbeat's read
\* and its write.
C11_HeartbeatOnlyOnOwnRecord ==
  [][(trace'.act = "put" /\ trace'.kind = "heartbeat")
     => store.initiator = trace'.c]_vars

\* The (addedAt, itemId) pair of a goes before that of b, the item ids taken
\* in the collation of the given locale.
PairBefore(locale, a, b) ==
  \/ a.addedAt < b.addedAt
  \/ /\ a.addedAt = b.addedAt
     /\ CollationRank(locale, a.itemId) < CollationRank(locale, b.itemId)

ItemsOf(list) == {list[i] : i \in 1..Len(list)}

\* The list holds the stored items, each once, in ascending order of the
\* (addedAt, itemId) pair as the given locale orders it.
OrderedListOf(locale, list, items) ==
  /\ ItemsOf(list) = items
  /\ Len(list) = Cardinality(items)
  /\ \A i, j \in 1..Len(list) : i < j => PairBefore(locale, list[i], list[j])

\* C13: the list handed to the subscribe callback holds every stored item
\* once, in ascending order of (addedAt, itemId); a read that follows on the
\* same contents, by any client, agrees with it: a list read hands the same
\* list, getFirstItem hands its first element.
C13_ReadsAgreeOnOrder ==
  [][/\ qtrace'.act = "list"
        => OrderedListOf(LocaleOf(qtrace'.c), qtrace'.items, queue')
     /\ (qtrace.act = "list" /\ queue' = queue /\ qtrace'.act = "list")
        => qtrace'.items = qtrace.items
     /\ (qtrace.act = "list" /\ queue' = queue /\ qtrace'.act = "first")
        => qtrace'.first = FirstOf(qtrace.items)]_vars

\* The same, for reads by one client.
C13_ReadsOfOneClientAgree ==
  [][/\ qtrace'.act = "list"
        => OrderedListOf(LocaleOf(qtrace'.c), qtrace'.items, queue')
     /\ (qtrace.act = "list" /\ queue' = queue /\ qtrace'.act = "list"
           /\ qtrace'.c = qtrace.c)
        => qtrace'.items = qtrace.items
     /\ (qtrace.act = "list" /\ queue' = queue /\ qtrace'.act = "first"
           /\ qtrace'.c = qtrace.c)
        => qtrace'.first = FirstOf(qtrace.items)]_vars

\* C14: a remove that lands takes away the item stored under its id and no
\* other; when no item is stored under the id (it was removed before, or
\* never added) the remove completes and the queue is as it was.
C14_RemoveItemIdempotent ==
  [][qtrace'.act = "remove"
       => /\ \A x \in queue : x \in queue' <=> x.itemId # qtrace'.itemId
          /\ queue' \subseteq queue
          /\ qtrace'.had => Cardinality(queue') = Cardinality(queue) - 1
          /\ ~qtrace'.had => queue' = queue]_vars

\* A remove landed for the id of an item that had been added and was already
\* removed, on a queue that holds other items.
C14_Witness ==
  /\ qtrace.act = "remove"
  /\ ~qtrace.had
  /\ qtrace.itemId \in qkeys
  /\ queue # {}

\* C15: an add that lands stores one new item, under the id that addSong
\* returns and under which nothing was stored, with the song and the member
\* of the call; every item stored before is still stored, unchanged, so the
\* adds of several members in flight at once all end up in the queue.
C15_AddSongAppendsOne ==
  [][qtrace'.act = "add"
       => /\ ~qtrace'.had
          /\ queue \subseteq queue'
          /\ Cardinality(queue') = Cardinality(queue) + 1
          /\ \A x \in queue' \ queue :
               /\ x.itemId = qtrace'.itemId
               /\ x.addedBy = qtrace'.c
               /\ x.addedAt = now]_vars

\* An add landed on a queue that holds another item while the add of another
\* member is in flight.
C15_Witness ==
  /\ qtrace.act = "add"
  /\ Cardinality(queue) >= 2
  /\ \E d \in Clients \ {qtrace.c} :
       \E i \in 1..Len(qops[d]) : qops[d][i].kind = "add"

\* C16: when the listener is handed the update it was handed last once more,
\* the second application issues no seek.
C16_SecondApplicationNoSeek ==
  [][(trace'.act = "deliver" /\ seen[Me] # <<>> /\ trace'.raw = Last(seen[Me]))
       => ~trace'.seek]_vars

\* C17: when the listener is called with a null snapshot (the record is gone)
\* the client is not playing afterwards.
C17_NullSnapshotStopsPlayback ==
  [][(trace'.act = "deliver" /\ trace'.outcome = "null")
       => ~provider'[trace'.c].isPlaying]_vars

\* C18: when the get or the write of a play, pause, resume or seek is
\* rejected, no listener is handed anything, every subscription is as it was,
\* the record is as it was, and the issuer's song, isPlaying, position and
\* player are as the control left them.
C18_WriteFailureStaysAtIssuer ==
  [][trace'.act = "fail"
       => /\ inbox' = inbox
          /\ store' = store
          /\ \A c \in Clients : service'[c].subscribed = service[c].subscribed
          /\ provider' = provider]_vars

\* A write of a member was rejected while the member's isPlaying differs from
\* the record's: the optimistic change is still there.
C18_Witness ==
  /\ trace.act = "fail"
  /\ service[trace.c].subscribed
  /\ provider[trace.c].isPlaying # store.isPlaying

\* Nothing is on its way: no call in flight, no update undelivered.
Settled == \A c \in Clients : ops[c] = <<>> /\ inbox[c] = <<>>

\* C19: once an operation of a member has been stored and every listener has
\* been handed every update, with no call in flight, every member's song and
\* isPlaying are those of the record.
C19_InSyncAfterOperation ==
  (Settled /\ Version(store) > Version(FirstRecord))
    => \A c \in Clients :
         service[c].subscribed
           => /\ provider[c].currentSong = store.songId
              /\ provider[c].isPlaying = store.isPlaying

\* C20: after unsubscribe the service holds neither the subscription nor the
\* heartbeat timer of the room, whatever it held before; a call that finds
\* neither, be it a repeated one or one for a room never subscribed,
\* completes and leaves the service and the listener's queue as they were.
C20_UnsubscribeIdempotent ==
  [][trace'.act = "unsubscribe"
       => /\ ~service'[trace'.c].subscribed
          /\ ~service'[trace'.c].heartbeat
          /\ inbox'[trace'.c] = <<>>
          /\ (~service[trace'.c].subscribed /\ ~service[trace'.c].heartbeat)
               => service' = service /\ inbox' = inbox]_vars

\* unsubscribe was called by a member that has played a song and holds
\* neither subscription nor heartbeat any more.
C20_Witness ==
  /\ trace.act = "unsubscribe"
  /\ trace.outcome = "nothing"
  /\ service[trace.c].lastUserOpId # NoOpId

\* C21: in every state of the stored record, startServerTs is set exactly
\* when isPlaying is true.
C21_StartServerTsIffPlaying ==
  store.exists => (store.startServerTs # Absent <=> store.isPlaying)

\* The same, while no heartbeat write has been made.
C21_HoldsWithoutHeartbeat ==
  [][(store.exists => (store.startServerTs # Absent <=> store.isPlaying))
       /\ trace'.act = "put" /\ trace'.kind # "heartbeat"
       => (store'.startServerTs # Absent <=> store'.isPlaying)]_vars

\* C22: an update written by an operation of the client that is handed it is
\* classified as local and is not applied as a remote one, whatever the
\* client has issued since.
C22_OwnUpdateIsLocalEcho ==
  [][(trace'.act = "deliver" /\ trace'.raw.exists
        /\ trace'.raw.initiator = trace'.c)
       => trace'.isLocal /\ trace'.outcome # "applied"]_vars

\* The same for a client that has issued nothing since the operation that
\* wrote the update.
C22_HoldsForLastOperation ==
  [][(trace'.act = "deliver" /\ trace'.raw.exists
        /\ trace'.raw.initiator = trace'.c
        /\ trace'.raw.opId = service[trace'.c].lastUserOpId)
       => trace'.isLocal /\ trace'.outcome # "applied"]_vars

\* C23: the first state a client is handed after subscribing is applied,
\* whatever its version and its author: the player it has is seeked to the
\* computed position, and without a player the position is kept for the one
\* to come.
C23_FirstStateIsAuthoritative ==
  [][(trace'.act = "deliver" /\ trace'.c = Me /\ seen[Me] = <<>>
        /\ trace'.raw.exists)
       => /\ trace'.outcome = "applied"
          /\ provider'[Me].lastAppliedVersion = trace'.raw.version
          /\ IF HasPlayer(provider[Me])
             THEN /\ trace'.seek
                  /\ provider'[Me].playerRef.lastSeek = trace'.syncedPos
             ELSE provider'[Me].pendingSyncPosition = trace'.syncedPos]_vars

\* The same for a first state that the client's last operation did not
\* write.
C23_HoldsForOthersUpdates ==
  [][(trace'.act = "deliver" /\ trace'.c = Me /\ seen[Me] = <<>>
        /\ trace'.raw.exists
        /\ trace'.raw.opId # service[Me].lastUserOpId)
       => /\ trace'.outcome = "applied"
          /\ provider'[Me].lastAppliedVersion = trace'.raw.version
          /\ IF HasPlayer(provider[Me])
             THEN /\ trace'.seek
                  /\ provider'[Me].playerRef.lastSeek = trace'.syncedPos
             ELSE provider'[Me].pendingSyncPosition = trace'.syncedPos]_vars

\* C24: once the first sync is done, an update that is applied as a remote
\* one seeks the player to the target when the player's position is more
\* than 2 s away from it, and leaves the player alone otherwise.
C24_SeekIffDriftOverTolerance ==
  [][(trace'.act = "deliver" /\ trace'.outcome = "applied"
        /\ provider[Me].hasInitialSynced /\ HasPlayer(provider[Me]))
       => IF Abs(provider[Me].playerRef.time - trace'.syncedPos) > DriftTolerance
          THEN /\ provider'[Me].playerRef.time = trace'.syncedPos
               /\ provider'[Me].playerRef.lastSeek = trace'.syncedPos
          ELSE provider'[Me].playerRef = provider[Me].playerRef]_vars

\* An update was applied with the player exactly 2 s away from the target,
\* and the player was not seeked.
C24_Witness ==
  /\ trace.act = "deliver"
  /\ trace.outcome = "applied"
  /\ provider[Me].hasInitialSynced
  /\ HasPlayer(provider[Me])
  /\ provider[Me].playerRef.lastSeek = Absent
  /\ Abs(provider[Me].playerRef.time - trace.syncedPos) = DriftTolerance

\* C25: an update applied as a remote one that names another track makes the
\* client mount a player for that track, and that player, when it becomes the
\* ready one, is seeked to the target position of the update.
C25_NewTrackPlayerIsSeeked ==
  [][/\ (trace'.act = "deliver" /\ trace'.outcome = "applied"
          /\ trace'.raw.songId # provider[Me].currentSong)
        => /\ provider'[Me].currentSong = trace'.raw.songId
           /\ provider'[Me].mounting
     /\ (provider[Me].mounting /\ ~provider'[Me].mounting)
        => /\ provider'[Me].playerRef.video = provider[Me].currentSong
           /\ provider'[Me].playerRef.lastSeek = provider[Me].currentTime]_vars

\* The same for a client that holds no player when the update is applied.
C25_HoldsWithoutPlayer ==
  [][/\ (trace'.act = "deliver" /\ trace'.outcome = "applied"
          /\ trace'.raw.songId # provider[Me].currentSong)
        => /\ provider'[Me].currentSong = trace'.raw.songId
           /\ provider'[Me].mounting
     /\ (provider[Me].mounting /\ ~provider'[Me].mounting
          /\ ~HasPlayer(provider[Me]))
        => /\ provider'[Me].playerRef.video = provider[Me].currentSong
           /\ provider'[Me].playerRef.lastSeek = provider[Me].currentTime]_vars

\* C26: while the client stays in the room, lastAppliedVersion never
\* decreases, and once the client has been handed an update, be it applied,
\* its own echo, a repeated or an older one, it is the highest version among
\* the updates handed to it.
C26_LastAppliedIsMaxProcessed ==
  [][/\ provider'[Me].lastAppliedVersion >= provider[Me].lastAppliedVersion
     /\ seen'[Me] # <<>>
          => provider'[Me].lastAppliedVersion = MaxSeenVersion(seen'[Me])]_vars

\* The client was handed its own update and then an older update of another
\* member, which left lastAppliedVersion where it was.
C26_Witness ==
  /\ Len(seen[Me]) >= 2
  /\ trace.act = "deliver"
  /\ trace.outcome = "stale"
  /\ \E i \in 1..Len(seen[Me]) :
       /\ seen[Me][i].initiator = Me
       /\ seen[Me][i].version = provider[Me].lastAppliedVersion

\* C27: a call of pause, resume or seek that finds no record returns without
\* a write and without touching lastUserOpId; a playSong that finds no record
\* writes version 1; and a write that lands where there is no record is the
\* write of a playSong.
C27_OnlyPlaySongCreates ==
  [][/\ (trace'.act = "get" /\ ~store.exists
          /\ trace'.kind \in {"pause", "resume", "seek"})
        => /\ trace'.outcome = "return"
           /\ service'[trace'.c].lastUserOpId = service[trace'.c].lastUserOpId
           /\ Len(ops'[trace'.c]) = Len(ops[trace'.c]) - 1
     /\ (trace'.act = "get" /\ ~store.exists /\ trace'.kind = "playSong")
        => \E i \in 1..Len(ops'[trace'.c]) :
             /\ ops'[trace'.c][i].kind = "playSong"
             /\ ops'[trace'.c][i].phase = "put"
             /\ ops'[trace'.c][i].version = 1
     /\ (trace'.act = "put" /\ ~store.exists) => trace'.kind = "playSong"]_vars

\* C28: a write of pause, resume, seek or of the heartbeat leaves songId,
\* songMeta and volume of the record as they were; a write of playSong
\* replaces the record by one made of the call alone, playing from 0.
C28_OnlyPlaySongChangesSong ==
  [][trace'.act = "put"
       => IF trace'.kind = "playSong"
          THEN /\ store'.isPlaying /\ store'.position = 0
               /\ \E i \in 1..Len(ops[trace'.c]) :
                    /\ ops[trace'.c][i].kind = "playSong"
                    /\ store' = PlaySongWrite(NoRecord, ops[trace'.c][i], now)
          ELSE /\ store'.songId = store.songId
               /\ store'.songMeta = store.songMeta
               /\ store'.volume = store.volume]_vars

\* A pause landed on a record that names a song.
C28_Witness ==
  /\ trace.act = "put"
  /\ trace.kind = "pause"
  /\ store.songId # NoSong
  /\ ~store.isPlaying

\* C29: the listener's step that applies a remote update issues no call of
\* the service, and from that step until the 400 ms timer it started has
\* fired no pause, resume or seek of the same client reaches the service.
C29_NoIntentDuringApply ==
  [][/\ trace'.act = "deliver" => ops' = ops /\ calls' = calls
     /\ \A c \in Clients :
          (/\ Len(ops'[c]) > Len(ops[c])
           /\ Last(ops'[c]).kind \in {"pause", "resume", "seek"})
            => provider[c].syncTimers = 0]_vars

\* While the flag is set no pause, resume or seek reaches the service.
C29_HoldsWhileFlagged ==
  [][\A c \in Clients :
       (/\ Len(ops'[c]) > Len(ops[c])
        /\ Last(ops'[c]).kind \in {"pause", "resume", "seek"})
         => ~provider[c].isSyncing]_vars

\* C30: after setActiveRoom has moved the client from room A to room B, the
\* first state its listener is handed from B is applied and its version
\* becomes lastAppliedVersion, whatever its version and whatever A's listener
\* was handed meanwhile.
C30_FirstStateOfNewRoomApplied ==
  [][(trace'.act = "deliver" /\ provider[Me].listensTo = RoomB)
       => /\ trace'.outcome = "applied"
          /\ provider'[Me].lastAppliedVersion = Version(trace'.raw)]_vars

\* It is applied when A's listener was handed nothing between setActiveRoom
\* and the effect that detaches it.
C30_HoldsWhenOldRoomIsSilent ==
  [][(/\ trace'.act = "deliver"
      /\ provider[Me].listensTo = RoomB
      /\ provider[Me].lastAppliedVersion = 0)
       => /\ trace'.outcome = "applied"
          /\ provider'[Me].lastAppliedVersion = Version(trace'.raw)]_vars

====
